---- MODULE Spec2Model ----
(***************************************************************************)
(* Bayesian Decomposition (Bd) of nimfa: the run loop of Bd.factorize, the *)
(* stopping predicate Bd._is_satisfied, the parameter set-up               *)
(* Bd._set_params, the (empty) Bd.update and the objective Bd.objective.   *)
(*                                                                         *)
(* Matrices live in a heap of objects so that aliasing and .copy() are     *)
(* visible: self.W, self.H and the fields of a tracked snapshot are        *)
(* references into the heap.                                               *)
(***************************************************************************)
EXTENDS Integers, Sequences, FiniteSets, TLC

(* ------------------------------ bounds -------------------------------- *)
MaxRun == 2
MaxCalls == 2
MaxSweeps == 7

(* shape of the problem: V is Rows x Cols, W is Rows x Comps, H is Comps x Cols *)
Rows == {1}
Cols == {1}
Comps == {1, 2}
Entries == {0, 1}

(* ------------------- floating point objective values ------------------ *)
Fin(n) == [k |-> "fin", v |-> n]
NaN == [k |-> "nan", v |-> 0]
PInf == [k |-> "inf", v |-> 1]
NoObj == [k |-> "none", v |-> 0]

IsNaN(a) == a.k = "nan"
IsFinite(a) == a.k = "fin"

\* a - b in IEEE arithmetic
FSub(a, b) ==
    IF IsNaN(a) \/ IsNaN(b) THEN NaN
    ELSE IF a.k = "inf" THEN (IF b.k = "inf" /\ b.v = a.v THEN NaN ELSE a)
    ELSE IF b.k = "inf" THEN [k |-> "inf", v |-> 0 - b.v]
    ELSE Fin(a.v - b.v)

\* a <= b in IEEE arithmetic: false as soon as one side is NaN
FLe(a, b) ==
    /\ ~IsNaN(a)
    /\ ~IsNaN(b)
    /\ IF a.k = "inf" THEN (a.v = -1 \/ (b.k = "inf" /\ b.v = 1))
       ELSE IF b.k = "inf" THEN b.v = 1
       ELSE a.v <= b.v

FGe(a, b) == FLe(b, a)
FLt(a, b) == FLe(a, b) /\ a # b
FGt(a, b) == FLt(b, a)

(* --------------------- optional integer parameters -------------------- *)
None == [set |-> FALSE, v |-> 0]
Some(n) == [set |-> TRUE, v |-> n]
\* Python truth value of an int-or-None parameter
Truthy(x) == x.set /\ x.v # 0

\* options.get(key, default)
OptionOr(x, default) == IF x.set THEN x.v ELSE default

(* ------------------------------ inputs -------------------------------- *)
\* values a synthetic objective (objective() overridden by a test double) returns
\* when it is left free
ObjVals == {Fin(0), Fin(20), Fin(40), Fin(80), NaN, PInf}
\* scripted synthetic objectives: the k-th call of a run returns the k-th value
\* (the last value again once the script is used up)
Decreasing == <<Fin(100), Fin(85), Fin(80), Fin(60), Fin(40), Fin(20), Fin(0)>>
UpTurn == <<Fin(100), Fin(80), Fin(85)>>
Scripts == {Decreasing, UpTurn}
MaxItersVals == {None, Some(-1), Some(0), Some(1), Some(5)}
MinResidualsVals == {None, Some(-30), Some(0), Some(10)}
TestConvVals == {None, Some(1), Some(2)}

WMatrices == [Rows \X Comps -> Entries]
HMatrices == {[p \in Comps \X Cols |-> e] : e \in Entries}
VMatrices == [Rows \X Cols -> {0, 1}]
\* exclusion masks n_w: the marked columns of W
NwMasks == {{}, {1}, Comps}
\* prior-rate matrices: the zero defaults of _set_params and given ones
ZerosW == [p \in Rows \X Comps |-> 0]
ZerosH == [p \in Comps \X Cols |-> 0]
NoPrior == [set |-> FALSE, v |-> <<>>]
AlphaVals == {NoPrior, Some([p \in Rows \X Comps |-> 1])}
BetaVals == {NoPrior}
\* the option sigma: not given (default 1.) or given
SigmaVals == {None, Some(2)}

VARIABLES
    \* configuration (fixed by the caller before factorize())
    V, n_run, max_iters, min_residuals, test_conv, callback,
    opt_track, opt_n_w, opt_sigma, opt_n_sigma, opt_alpha, opt_beta, stub, script, ncalls,
    \* attributes of the Bd object
    heap, next_id, W, H, v, n_w, sigma, n_sigma, alpha, beta, tracker, n_iter, final_obj,
    \* locals of factorize()
    pc, run, pobj, cobj, iter, sat,
    \* observers
    calls, updates, seedW, seedH, cb_calls, ocalls, steps, seed_calls, cb_obj

\* the options and generic parameters, all but the target matrix V
opts == <<n_run, max_iters, min_residuals, test_conv, callback,
          opt_track, opt_n_w, opt_sigma, opt_n_sigma, opt_alpha, opt_beta, stub, script, ncalls>>
cfg == <<V, opts>>
\* the parameters _set_params reads from the options
prm == <<n_w, sigma, n_sigma, alpha, beta>>
attrs == <<heap, next_id, W, H, v, prm, tracker, n_iter, final_obj>>
locals == <<pc, run, pobj, cobj, iter, sat>>
obs == <<calls, updates, seedW, seedH, cb_calls, ocalls, steps, seed_calls, cb_obj>>
vars == <<cfg, attrs, locals, obs>>

(* ------------------------------ helpers ------------------------------- *)
RECURSIVE SumOver(_, _)
SumOver(S, f) ==
    IF S = {} THEN 0
    ELSE LET x == CHOOSE y \in S : TRUE
         IN f[x] + SumOver(S \ {x}, f)

\* dot(W, H)
Dot(w, h) ==
    [p \in Rows \X Cols |->
        SumOver(Comps, [c \in Comps |-> w[<<p[1], c>>] * h[<<c, p[2]>>]])]

\* Bd.objective: (elop(V - dot(W, H), 2, pow)).sum()
Objective(vm, w, h) ==
    LET d == Dot(w, h)
    IN Fin(SumOver(Rows \X Cols,
                   [p \in Rows \X Cols |-> (vm[p] - d[p]) * (vm[p] - d[p])]))

\* multiply(V, V).sum() / 2. as the rational <<numerator, denominator>>
HalfSquares(vm) == <<SumOver(Rows \X Cols, [p \in Rows \X Cols |-> vm[p] * vm[p]]), 2>>

\* the heap keeps the objects that are still referenced
Live(hp, refs) == [i \in (DOMAIN hp) \cap refs |-> hp[i]]
TrackerRefs(t) == {t.list[i].W : i \in 1..Len(t.list)} \cup {t.list[i].H : i \in 1..Len(t.list)}

\* an update that lowers every entry of W by one
updateLowering(hp, w, h, mask) == [hp EXCEPT ![w] = [p \in DOMAIN @ |-> @[p] - 1]]

\* an update that redraws every column of W, the excluded ones too
updateEveryColumn(hp, w, h, mask) == [hp EXCEPT ![w] = [p \in DOMAIN @ |-> 1 - @[p]]]

\* Bd.update: the body is a docstring only, W and H are left as they are
update(hp, w, h, mask) == hp

\* Bd.update, as the list of sampling steps it performs: the body is empty
updateSteps == <<>>

\* an update that draws a new noise variance even when n_sigma is set
updateSigmaAlways(sg, nsg) == sg + 1

\* Bd.update, for the noise variance: the empty body leaves sigma as it is
updateSigma(sg, nsg) == sg

\* _is_satisfied with min_residuals = 0 taken as a set threshold
IsSatisfiedZeroResiduals(p, c, it, mi, mr) ==
    IF Truthy(mi) /\ mi.v < it THEN FALSE
    ELSE IF mr.set /\ it > 0 /\ FLe(FSub(c, p), Fin(mr.v)) THEN FALSE
    ELSE IF it > 0 /\ FGe(c, p) THEN FALSE
    ELSE TRUE

\* _is_satisfied stopping as soon as iter reaches max_iters
IsSatisfiedStopAtMax(p, c, it, mi, mr) ==
    IF Truthy(mi) /\ mi.v <= it THEN FALSE
    ELSE IF Truthy(mr) /\ it > 0 /\ FLe(FSub(c, p), Fin(mr.v)) THEN FALSE
    ELSE IF it > 0 /\ FGe(c, p) THEN FALSE
    ELSE TRUE

\* _is_satisfied without the max_iters test
IsSatisfiedNoMax(p, c, it, mi, mr) ==
    IF Truthy(mr) /\ it > 0 /\ FLe(FSub(c, p), Fin(mr.v)) THEN FALSE
    ELSE IF it > 0 /\ FGe(c, p) THEN FALSE
    ELSE TRUE

\* _is_satisfied applying the non-improvement test at iter = 0 as well
IsSatisfiedNoFirstPass(p, c, it, mi, mr) ==
    IF Truthy(mi) /\ mi.v < it THEN FALSE
    ELSE IF Truthy(mr) /\ it > 0 /\ FLe(FSub(c, p), Fin(mr.v)) THEN FALSE
    ELSE IF FGe(c, p) THEN FALSE
    ELSE TRUE

\* _is_satisfied stopping only when the objective rose, not when it stayed
IsSatisfiedStrictRise(p, c, it, mi, mr) ==
    IF Truthy(mi) /\ mi.v < it THEN FALSE
    ELSE IF Truthy(mr) /\ it > 0 /\ FLe(FSub(c, p), Fin(mr.v)) THEN FALSE
    ELSE IF it > 0 /\ FGt(c, p) THEN FALSE
    ELSE TRUE

\* Bd._is_satisfied
IsSatisfied(p, c, it, mi, mr) ==
    IF Truthy(mi) /\ mi.v < it THEN FALSE
    ELSE IF Truthy(mr) /\ it > 0 /\ FLe(FSub(c, p), Fin(mr.v)) THEN FALSE
    ELSE IF it > 0 /\ FGe(c, p) THEN FALSE
    ELSE TRUE

\* a tracker created whenever tracking is requested, whatever n_run is
NewTrackerAnyRun(track, nrun) == [on |-> track, list |-> <<>>]

\* the tracker list created by Bd._set_params
NewTracker(track, nrun) == [on |-> track /\ nrun > 1, list |-> <<>>]

\* what the k-th call of self.objective() in a run can return for the
\* matrices w, h: Bd.objective, or the synthetic objective that overrides it
ObjectiveResults(w, h, k) ==
    IF ~stub THEN {Objective(V, w, h)}
    ELSE IF script = <<>> THEN ObjVals
    ELSE {script[IF k <= Len(script) THEN k ELSE Len(script)]}

\* what seed.initialize can return
SeedW == IF stub THEN {[p \in Rows \X Comps |-> 1]} ELSE WMatrices
SeedH == IF stub THEN {[p \in Comps \X Cols |-> 1]} ELSE HMatrices

(* ------------------------------- Init --------------------------------- *)
Init ==
    /\ stub \in BOOLEAN
    /\ script \in (IF stub THEN Scripts \cup {<<>>} ELSE {<<>>})
    /\ V \in (IF stub THEN {[p \in Rows \X Cols |-> 1]} ELSE VMatrices)
    /\ n_run \in 1..MaxRun
    /\ max_iters \in (IF stub THEN MaxItersVals ELSE {None, Some(-1), Some(1)})
    /\ min_residuals \in (IF stub THEN MinResidualsVals ELSE {None})
    /\ test_conv \in (IF stub THEN TestConvVals ELSE {None})
    /\ callback \in (IF stub THEN {FALSE} ELSE BOOLEAN)
    /\ opt_track \in (IF stub THEN {FALSE} ELSE BOOLEAN)
    /\ opt_n_w \in (IF stub THEN {{}} ELSE NwMasks)
    /\ opt_sigma \in (IF script # <<>> THEN SigmaVals ELSE {None})
    /\ opt_n_sigma \in (IF stub THEN BOOLEAN ELSE {TRUE})
    /\ opt_alpha \in (IF script # <<>> THEN AlphaVals ELSE {NoPrior})
    /\ opt_beta \in BetaVals
    /\ ncalls = (IF stub THEN 1 ELSE MaxCalls)
    /\ heap = <<>>
    /\ next_id = 1
    /\ W = 0
    /\ H = 0
    /\ v = <<0, 1>>
    /\ n_w = {}
    /\ sigma = 0
    /\ n_sigma = FALSE
    /\ alpha = <<>>
    /\ beta = <<>>
    /\ tracker = [on |-> FALSE, list |-> <<>>]
    /\ n_iter = None
    /\ final_obj = NoObj
    /\ pc = "new"
    /\ run = 0
    /\ pobj = NoObj
    /\ cobj = NoObj
    /\ iter = 0
    /\ sat = FALSE
    /\ calls = 0
    /\ updates = 0
    /\ seedW = <<>>
    /\ seedH = <<>>
    /\ cb_calls = 0
    /\ ocalls = 0
    /\ steps = <<>>
    /\ seed_calls = 0
    /\ cb_obj = NoObj

(* ------------------------------ actions ------------------------------- *)
\* factorize() is entered: _set_params() and self.v
Factorize ==
    /\ pc \in {"new", "done"}
    /\ calls < ncalls
    /\ calls' = calls + 1
    /\ n_w' = opt_n_w
    /\ sigma' = OptionOr(opt_sigma, 1)
    /\ n_sigma' = opt_n_sigma
    /\ alpha' = OptionOr(opt_alpha, ZerosW)
    /\ beta' = OptionOr(opt_beta, ZerosH)
    /\ tracker' = NewTracker(opt_track, n_run)
    /\ v' = HalfSquares(V)
    /\ heap' = Live(heap, {W, H})
    /\ run' = 0
    /\ seed_calls' = 0
    /\ pc' = "for"
    /\ UNCHANGED <<cfg, next_id, W, H, n_iter, final_obj, pobj, cobj, iter, sat,
                   updates, seedW, seedH, cb_calls, ocalls, steps, cb_obj>>

\* a run that starts without setting iter back to 0
SeedRunKeepIter ==
    /\ pc = "for"
    /\ run < n_run
    /\ \E w \in SeedW, h \in SeedH :
         /\ W' = next_id
         /\ H' = next_id + 1
         /\ next_id' = next_id + 2
         /\ heap' = Live((next_id :> w) @@ ((next_id + 1) :> h) @@ heap,
                         {next_id, next_id + 1} \cup TrackerRefs(tracker))
         /\ seedW' = w
         /\ seedH' = h
         /\ \E o \in ObjectiveResults(w, h, 1) :
              /\ pobj' = o
              /\ cobj' = o
    /\ ocalls' = 1
    /\ seed_calls' = seed_calls + 1
    /\ updates' = 0
    /\ pc' = "while"
    /\ UNCHANGED <<cfg, v, prm, tracker, n_iter, final_obj, run, iter, sat, calls, cb_calls,
                   steps, cb_obj>>

\* a run that starts with cobj = objective() only, pobj left as it was
SeedRunKeepPobj ==
    /\ pc = "for"
    /\ run < n_run
    /\ \E w \in SeedW, h \in SeedH :
         /\ W' = next_id
         /\ H' = next_id + 1
         /\ next_id' = next_id + 2
         /\ heap' = Live((next_id :> w) @@ ((next_id + 1) :> h) @@ heap,
                         {next_id, next_id + 1} \cup TrackerRefs(tracker))
         /\ seedW' = w
         /\ seedH' = h
         /\ cobj' \in ObjectiveResults(w, h, 1)
    /\ ocalls' = 1
    /\ seed_calls' = seed_calls + 1
    /\ iter' = 0
    /\ updates' = 0
    /\ pc' = "while"
    /\ UNCHANGED <<cfg, v, prm, tracker, n_iter, final_obj, run, pobj, sat, calls, cb_calls,
                   steps, cb_obj>>

\* a run starts: seed.initialize, pobj = cobj = objective(), iter = 0
SeedRun ==
    /\ pc = "for"
    /\ run < n_run
    /\ \E w \in SeedW, h \in SeedH :
         /\ W' = next_id
         /\ H' = next_id + 1
         /\ next_id' = next_id + 2
         /\ heap' = Live((next_id :> w) @@ ((next_id + 1) :> h) @@ heap,
                         {next_id, next_id + 1} \cup TrackerRefs(tracker))
         /\ seedW' = w
         /\ seedH' = h
         /\ \E o \in ObjectiveResults(w, h, 1) :
              /\ pobj' = o
              /\ cobj' = o
    /\ ocalls' = 1
    /\ seed_calls' = seed_calls + 1
    /\ iter' = 0
    /\ updates' = 0
    /\ pc' = "while"
    /\ UNCHANGED <<cfg, v, prm, tracker, n_iter, final_obj, run, sat, calls, cb_calls,
                   steps, cb_obj>>

\* the loop condition self._is_satisfied(pobj, cobj, iter) is evaluated
Check ==
    /\ pc = "while"
    /\ sat' = IsSatisfied(pobj, cobj, iter, max_iters, min_residuals)
    /\ pc' = "checked"
    /\ UNCHANGED <<cfg, attrs, run, pobj, cobj, iter, obs>>

\* a loop body that tests the stride on the sweep count after this sweep
SweepStrideAfterCount ==
    /\ pc = "checked"
    /\ sat
    /\ iter < MaxSweeps
    /\ pobj' = cobj
    /\ heap' = update(heap, W, H, n_w)
    /\ sigma' = updateSigma(sigma, n_sigma)
    /\ steps' = updateSteps
    /\ updates' = updates + 1
    /\ IF ~Truthy(test_conv) \/ (iter + 1) % test_conv.v = 0
       THEN /\ cobj' \in ObjectiveResults(heap'[W], heap'[H], ocalls + 1)
            /\ ocalls' = ocalls + 1
       ELSE UNCHANGED <<cobj, ocalls>>
    /\ iter' = iter + 1
    /\ pc' = "while"
    /\ UNCHANGED <<cfg, next_id, W, H, v, n_w, n_sigma, alpha, beta, tracker, n_iter, final_obj, run, sat,
                   calls, seedW, seedH, cb_calls, seed_calls, cb_obj>>

\* a loop body whose objective takes the residual in place, in V
SweepResidualInV ==
    /\ pc = "checked"
    /\ sat
    /\ iter < MaxSweeps
    /\ pobj' = cobj
    /\ heap' = update(heap, W, H, n_w)
    /\ sigma' = updateSigma(sigma, n_sigma)
    /\ steps' = updateSteps
    /\ updates' = updates + 1
    /\ IF ~Truthy(test_conv) \/ iter % test_conv.v = 0
       THEN /\ cobj' \in ObjectiveResults(heap'[W], heap'[H], ocalls + 1)
            /\ ocalls' = ocalls + 1
       ELSE UNCHANGED <<cobj, ocalls>>
    /\ iter' = iter + 1
    /\ V' = [p \in Rows \X Cols |-> V[p] - Dot(heap[W], heap[H])[p]]
    /\ pc' = "while"
    /\ UNCHANGED <<opts, next_id, W, H, v, n_w, n_sigma, alpha, beta, tracker, n_iter, final_obj, run, sat,
                   calls, seedW, seedH, cb_calls, seed_calls, cb_obj>>

\* one pass of the loop body
Sweep ==
    /\ pc = "checked"
    /\ sat
    /\ iter < MaxSweeps
    /\ pobj' = cobj
    /\ heap' = update(heap, W, H, n_w)
    /\ sigma' = updateSigma(sigma, n_sigma)
    /\ steps' = updateSteps
    /\ updates' = updates + 1
    /\ IF ~Truthy(test_conv) \/ iter % test_conv.v = 0
       THEN /\ cobj' \in ObjectiveResults(heap'[W], heap'[H], ocalls + 1)
            /\ ocalls' = ocalls + 1
       ELSE UNCHANGED <<cobj, ocalls>>
    /\ iter' = iter + 1
    /\ pc' = "while"
    /\ UNCHANGED <<cfg, next_id, W, H, v, n_w, n_sigma, alpha, beta, tracker, n_iter, final_obj, run, sat,
                   calls, seedW, seedH, cb_calls, seed_calls, cb_obj>>

\* the loop condition was false
ExitLoop ==
    /\ pc = "checked"
    /\ ~sat
    /\ pc' = "callback"
    /\ UNCHANGED <<cfg, attrs, run, pobj, cobj, iter, sat, obs>>

\* a callback invoked before final_obj is assigned
CallbackBeforeFinalObj ==
    /\ pc = "callback"
    /\ IF callback
       THEN /\ final_obj' = cobj
            /\ cb_calls' = cb_calls + 1
            /\ cb_obj' = final_obj
       ELSE UNCHANGED <<final_obj, cb_calls, cb_obj>>
    /\ pc' = "track"
    /\ UNCHANGED <<cfg, heap, next_id, W, H, v, prm, tracker, n_iter,
                   run, pobj, cobj, iter, sat, calls, updates, seedW, seedH, ocalls,
                   steps, seed_calls>>

\* if self.callback: final_obj = cobj; callback(Mf_fit(self))
Callback ==
    /\ pc = "callback"
    /\ IF callback
       THEN /\ final_obj' = cobj
            /\ cb_calls' = cb_calls + 1
            /\ cb_obj' = final_obj'
       ELSE UNCHANGED <<final_obj, cb_calls, cb_obj>>
    /\ pc' = "track"
    /\ UNCHANGED <<cfg, heap, next_id, W, H, v, prm, tracker, n_iter,
                   run, pobj, cobj, iter, sat, calls, updates, seedW, seedH, ocalls,
                   steps, seed_calls>>

\* a snapshot that stores self.W and self.H themselves, not copies
TrackNoCopy ==
    /\ pc = "track"
    /\ IF tracker.on
       THEN tracker' = [tracker EXCEPT !.list = Append(@, [W |-> W, H |-> H])]
       ELSE UNCHANGED tracker
    /\ run' = run + 1
    /\ pc' = "for"
    /\ UNCHANGED <<cfg, heap, next_id, W, H, v, prm, n_iter, final_obj,
                   pobj, cobj, iter, sat, obs>>

\* if self.tracker != None: append Mf_track(W.copy(), H.copy()); next run
Track ==
    /\ pc = "track"
    /\ IF tracker.on
       THEN /\ heap' = (next_id :> heap[W]) @@ ((next_id + 1) :> heap[H]) @@ heap
            /\ tracker' = [tracker EXCEPT !.list = Append(@, [W |-> next_id, H |-> next_id + 1])]
            /\ next_id' = next_id + 2
       ELSE UNCHANGED <<heap, tracker, next_id>>
    /\ run' = run + 1
    /\ pc' = "for"
    /\ UNCHANGED <<cfg, W, H, v, prm, n_iter, final_obj, pobj, cobj, iter, sat, obs>>

\* after the last run: n_iter = iter, final_obj = cobj, return Mf_fit(self)
Finish ==
    /\ pc = "for"
    /\ run >= n_run
    /\ n_iter' = Some(iter)
    /\ final_obj' = cobj
    /\ pc' = "done"
    /\ UNCHANGED <<cfg, heap, next_id, W, H, v, prm, tracker, run, pobj, cobj, iter, sat, obs>>

Next ==
    \/ Factorize
    \/ SeedRun
    \/ Check
    \/ Sweep
    \/ ExitLoop
    \/ Callback
    \/ Track
    \/ Finish

Spec == Init /\ [][Next]_vars

\* factorize() is sequential code: once entered, its next step is always taken
Step == SeedRun \/ Check \/ Sweep \/ ExitLoop \/ Callback \/ Track \/ Finish
FairSpec == Spec /\ WF_vars(Step)

(* ----------------------------- properties ----------------------------- *)
\* the loop of the current run has ended (its sweeps are all done)
RunOver == pc \in {"callback", "track"}
\* the objective is recomputed after every sweep
EverySweepTested == test_conv \in {None, Some(1)}

\* C1: with max_iters = 5, min_residuals and test_conv unset and the strictly
\* decreasing objective, a run makes exactly 5 calls of update() and the
\* reported n_iter is 5.
C1Case ==
    /\ stub
    /\ script = Decreasing
    /\ max_iters = Some(5)
    /\ min_residuals = None
    /\ test_conv = None
C1_StopsAtSweepFive ==
    C1Case =>
        /\ updates <= 5
        /\ RunOver => (updates = 5 /\ iter = 5)
        /\ pc = "done" => n_iter = Some(5)

\* C2: with min_residuals = 0, max_iters unset and the objective 100 after
\* seeding, 80 after the first sweep and 85 after the second, the loop goes
\* on after sweep 1 and ends after sweep 2: exactly 2 sweeps.
C2Case ==
    /\ stub
    /\ script = UpTurn
    /\ min_residuals = Some(0)
    /\ max_iters = None
    /\ EverySweepTested
C2_UpTurnStopsAfterTwo ==
    C2Case =>
        /\ updates <= 2
        /\ (pc = "checked" /\ iter = 1) => (pobj = Fin(100) /\ cobj = Fin(80) /\ sat)
        /\ (pc = "checked" /\ iter = 2) => (pobj = Fin(80) /\ cobj = Fin(85) /\ ~sat)
        /\ RunOver => (updates = 2 /\ iter = 2)
        /\ pc = "done" => n_iter = Some(2)
C2_Witness ==
    /\ C2Case
    /\ pc = "done"
    /\ n_iter = Some(2)
    /\ pobj = Fin(80)
    /\ final_obj = Fin(85)

\* C3 as stated: _is_satisfied(pobj, cobj, iter) is true exactly when
\* (iter = 0 or max_iters unset or iter <= max_iters) and
\* (iter = 0 or min_residuals unset or cobj - pobj > min_residuals) and
\* (iter = 0 or cobj < pobj), 0 and negative parameters being set values.
C3_StatedPredicate ==
    pc = "checked" =>
        (sat <=> /\ (iter = 0 \/ ~max_iters.set \/ iter <= max_iters.v)
                 /\ (iter = 0 \/ ~min_residuals.set
                        \/ FGt(FSub(cobj, pobj), Fin(min_residuals.v)))
                 /\ (iter = 0 \/ FLt(cobj, pobj)))

\* C3 amended: _is_satisfied(pobj, cobj, iter) is true exactly when
\* (max_iters unset or 0, or iter <= max_iters: tested at iter = 0 as well) and
\* (iter = 0 or min_residuals unset or 0, or not cobj - pobj <= min_residuals)
\* and (iter = 0 or not cobj >= pobj); a comparison with NaN is false.
C3_CodePredicate ==
    pc = "checked" =>
        (sat <=> /\ (max_iters = None \/ max_iters = Some(0) \/ iter <= max_iters.v)
                 /\ (iter = 0 \/ min_residuals = None \/ min_residuals = Some(0)
                        \/ ~FLe(FSub(cobj, pobj), Fin(min_residuals.v)))
                 /\ (iter = 0 \/ ~FGe(cobj, pobj)))
C3_Witness ==
    /\ pc = "checked"
    /\ iter > 0
    /\ max_iters.set /\ max_iters.v > 0
    /\ min_residuals.set /\ min_residuals.v # 0
    /\ IsFinite(pobj) /\ IsFinite(cobj)
    /\ sat


\* snapshots of the tracker, as matrices
SnapW(i) == heap[tracker.list[i].W]
SnapH(i) == heap[tracker.list[i].H]
Tracking == opt_track /\ n_run > 1
InCall == pc \notin {"new", "done"}

\* C4: with tracking requested and n_run = N > 1 the tracker holds N snapshots
\* when factorize() returns, the i-th one taken from the final (W,H) of run i;
\* a stored snapshot never changes during the call, and snapshots share no
\* storage with the live W, H or with each other.
C4Returned ==
    (Tracking /\ pc = "done") => (tracker.on /\ Len(tracker.list) = n_run)
C4NoSharing ==
    /\ Cardinality(TrackerRefs(tracker)) = 2 * Len(tracker.list)
    /\ W \notin TrackerRefs(tracker)
    /\ H \notin TrackerRefs(tracker)
C4Step ==
    /\ (Tracking /\ pc = "track") =>
          /\ Len(tracker'.list) = run + 1
          /\ heap'[tracker'.list[run + 1].W] = heap[W]
          /\ heap'[tracker'.list[run + 1].H] = heap[H]
    /\ InCall =>
          \A i \in 1..Len(tracker.list) :
              /\ i <= Len(tracker'.list)
              /\ heap'[tracker'.list[i].W] = SnapW(i)
              /\ heap'[tracker'.list[i].H] = SnapH(i)
C4_SnapshotPerRun == [](C4Returned /\ C4NoSharing) /\ [][C4Step]_vars
C4_Witness ==
    /\ Tracking
    /\ pc = "done"
    /\ Len(tracker.list) = n_run
    /\ SnapW(1) # SnapW(2)
    /\ SnapH(1) # SnapH(2)
    /\ SnapW(n_run) = heap[W]

\* C5: a tracker exists exactly when tracking is requested and n_run > 1;
\* without one nothing is recorded, with one it holds one snapshot per run
\* completed in the current call, so every call starts from an empty tracker.
C5_TrackerIffRequested ==
    pc # "new" =>
        /\ tracker.on <=> (opt_track /\ n_run > 1)
        /\ ~tracker.on => tracker.list = <<>>
        /\ tracker.on => Len(tracker.list) = run
C5_Witness ==
    /\ calls = 2
    /\ pc = "while"
    /\ run = 0
    /\ tracker.on
    /\ tracker.list = <<>>

\* C6: when factorize() returns, n_iter is the number of update() calls of
\* the last run, final_obj is the objective the last run ended with, and W, H
\* are the matrices the last run ended with (nothing after the last run's
\* loop touches them).
C6Returned ==
    pc = "done" =>
        /\ n_iter = Some(updates)
        /\ final_obj = cobj
        /\ tracker.on => (SnapW(n_run) = heap[W] /\ SnapH(n_run) = heap[H])
C6Step ==
    (pc \in {"callback", "track"} \/ (pc = "for" /\ run >= n_run)) =>
        /\ W' = W
        /\ H' = H
        /\ heap'[W] = heap[W]
        /\ heap'[H] = heap[H]
        /\ cobj' = cobj
        /\ updates' = updates
C6_LastRunSurfaced == []C6Returned /\ [][C6Step]_vars
C6_Witness ==
    /\ pc = "done"
    /\ n_run > 1
    /\ n_iter = Some(3)
    /\ updates = 3
    /\ final_obj = cobj
    /\ IsFinite(cobj)

\* C7: with max_iters a positive integer every call of factorize() returns,
\* whatever values the objective takes.
C7_MaxItersTerminates ==
    (InCall /\ max_iters.set /\ max_iters.v > 0) ~> (pc = "done")
\* a run ended by max_iters alone: the objective was NaN to the end
C7_Witness ==
    /\ pc = "done"
    /\ max_iters = Some(5)
    /\ n_iter = Some(6)
    /\ IsNaN(pobj)
    /\ IsNaN(cobj)

\* C8: once the objective is NaN or infinite after a sweep, no further sweep
\* of that run is executed.
C8_NonFiniteEndsRun ==
    (pc = "checked" /\ iter > 0 /\ ~IsFinite(cobj)) => ~sat

\* C9: with V and the seeded W, H non-negative, every entry of W and H is
\* >= 0 in every state of factorize().
NonNegative(m) == \A p \in DOMAIN m : m[p] >= 0
C9_NonNegative ==
    (W \in DOMAIN heap /\ NonNegative(V) /\ NonNegative(seedW) /\ NonNegative(seedH)) =>
        (NonNegative(heap[W]) /\ NonNegative(heap[H]))
C9_Witness ==
    /\ pc = "while"
    /\ updates >= 1
    /\ \E p \in DOMAIN heap[W] : heap[W][p] = 0
    /\ \E p \in DOMAIN heap[H] : heap[H][p] > 0

\* C10: every column of W marked in n_w equals, in every state after seeding
\* and when factorize() returns, the same column of the W the Seeder returned
\* for the last run.
C10_ExcludedColumnsKept ==
    (W \in DOMAIN heap /\ calls > 0) =>
        \A k \in n_w : \A i \in Rows : heap[W][<<i, k>>] = seedW[<<i, k>>]
C10_Witness ==
    /\ pc = "done"
    /\ updates >= 1
    /\ n_w = {1}
    /\ heap[W][<<1, 1>>] = 0
    /\ heap[W][<<1, 2>>] = 1

\* C11: when n_sigma is set, no sweep of any run changes sigma: during and
\* after factorize() it is the configured initial value, 1 when none is given.
C11_SigmaKept ==
    (calls > 0 /\ n_sigma) =>
        sigma = (IF opt_sigma = None THEN 1 ELSE opt_sigma.v)
C11_Witness ==
    /\ pc = "done"
    /\ n_sigma
    /\ n_iter = Some(2)
    /\ opt_sigma = Some(2)
    /\ sigma = 2

\* C12: every sweep performs its three sampling steps in the order basis
\* matrix W, mixture matrix H, noise variance sigma (the objective is
\* recomputed after them).
C12_SamplingOrder ==
    updates >= 1 => steps = <<"W", "H", "sigma">>

\* C13: every run starts fresh: the Seeder is called once per run, before
\* any sweep; the sweep index starts at 0 and counts this run's sweeps only;
\* previous and current objective both start as the objective of the
\* freshly seeded (W,H).
C13_FreshRun ==
    /\ pc \in {"while", "checked", "callback", "track"} => seed_calls = run + 1
    /\ pc \in {"for", "done"} => seed_calls = run
    /\ calls > 0 => iter = updates
    /\ (pc = "while" /\ updates = 0) =>
          /\ iter = 0
          /\ pobj = cobj
          /\ ocalls = 1
          /\ heap[W] = seedW
          /\ heap[H] = seedH
          /\ ~stub => cobj = Objective(V, seedW, seedH)
          /\ script # <<>> => cobj = script[1]
C13_Witness ==
    /\ pc = "while"
    /\ run = 1
    /\ seed_calls = 2
    /\ iter = 0
    /\ callback
    /\ final_obj # cobj
    /\ pobj = cobj

\* C14: with test_conv = t > 0 the sweep done at sweep index i recomputes the
\* objective exactly when i mod t = 0 and otherwise keeps the current
\* objective; with test_conv unset every sweep recomputes it (from the
\* current W, H).
SweepStep == pc = "checked" /\ pc' = "while"
C14Step ==
    SweepStep =>
        /\ (test_conv.set /\ test_conv.v > 0) =>
              /\ (ocalls' = ocalls + 1) <=> (iter % test_conv.v = 0)
              /\ (iter % test_conv.v # 0) => (cobj' = cobj /\ ocalls' = ocalls)
        /\ test_conv = None => ocalls' = ocalls + 1
        /\ (~stub /\ ocalls' = ocalls + 1) => cobj' = Objective(V, heap'[W], heap'[H])
C14_StrideRecompute == [][C14Step]_vars
C14_Witness ==
    /\ pc = "while"
    /\ test_conv = Some(2)
    /\ iter = 2
    /\ ocalls = 2
    /\ IsFinite(cobj)
    /\ cobj = pobj

\* C15: factorize() never modifies V, alpha or beta: V and the supplied
\* options never change, and alpha, beta are the supplied matrices (the zero
\* matrices when none is supplied) in every state of every run.
C15Params ==
    calls > 0 =>
        /\ alpha = (IF opt_alpha.set THEN opt_alpha.v ELSE ZerosW)
        /\ beta = (IF opt_beta.set THEN opt_beta.v ELSE ZerosH)
C15Step ==
    /\ V' = V
    /\ opt_alpha' = opt_alpha
    /\ opt_beta' = opt_beta
    /\ calls > 0 => (alpha' = alpha /\ beta' = beta)
C15_InputsKept == []C15Params /\ [][C15Step]_vars
C15_Witness ==
    /\ pc = "done"
    /\ n_iter = Some(2)
    /\ opt_alpha.set
    /\ alpha = opt_alpha.v
    /\ beta = ZerosH
    /\ \E p \in DOMAIN V : V[p] = 1

\* C16 as stated: at sweep index 0 the stopping predicate says continue
\* whatever max_iters (0 and negative included), min_residuals and the
\* objective are, so every run executes at least one sweep.
C16_AlwaysFirstSweep ==
    /\ (pc = "checked" /\ iter = 0) => sat
    /\ RunOver => updates >= 1

\* C16 amended: at sweep index 0 the predicate says continue, whatever
\* min_residuals and the objective are, exactly when max_iters is unset or
\* >= 0; such a run executes at least one sweep, and a run with a negative
\* max_iters executes none.
NegativeMaxIters == max_iters.set /\ max_iters.v < 0
C16_FirstSweepUnlessNegative ==
    /\ (pc = "checked" /\ iter = 0) => (sat <=> ~NegativeMaxIters)
    /\ RunOver => (updates >= 1 <=> ~NegativeMaxIters)
C16_Witness ==
    /\ pc = "callback"
    /\ max_iters = Some(0)
    /\ min_residuals = Some(10)
    /\ updates = 1
    /\ IsFinite(cobj)

\* C17: with a positive min_residuals and max_iters unset or positive, every
\* run stops after exactly one sweep, whatever the objective values are.
C17_PositiveResidualsOneSweep ==
    (min_residuals.set /\ min_residuals.v > 0
        /\ (max_iters = None \/ (max_iters.set /\ max_iters.v > 0))) =>
        /\ updates <= 1
        /\ RunOver => updates = 1

\* C18: with test_conv >= 2 a run executes at most 2 sweeps, whatever the
\* objective values are.
C18_StrideAtMostTwoSweeps ==
    (test_conv.set /\ test_conv.v >= 2) => updates <= 2

\* C19: with Bd's own update() and objective() and max_iters unset or positive,
\* the objective after the first sweep equals the initial one, every run
\* executes exactly one sweep, n_iter is 1, and the returned (W,H) and every
\* tracked snapshot equal what the Seeder returned for that run.
C19Case == ~stub /\ (max_iters = None \/ (max_iters.set /\ max_iters.v > 0))
C19_OneSweepSeedReturned ==
    C19Case =>
        /\ updates <= 1
        /\ (pc = "while" /\ updates = 1) => (cobj = pobj /\ cobj = Objective(V, seedW, seedH))
        /\ RunOver => (updates = 1 /\ iter = 1 /\ heap[W] = seedW /\ heap[H] = seedH)
        /\ (pc = "for" /\ run > 0 /\ tracker.on) =>
               (Len(tracker.list) = run /\ SnapW(run) = seedW /\ SnapH(run) = seedH)
        /\ pc = "done" => (n_iter = Some(1) /\ heap[W] = seedW /\ heap[H] = seedH)
C19_Witness ==
    /\ C19Case
    /\ pc = "done"
    /\ n_iter = Some(1)
    /\ Len(tracker.list) = 2
    /\ SnapW(1) # SnapW(2)
    /\ heap[W] = SnapW(2)
    /\ cobj # Fin(0)

\* C20: a configured callback is invoked exactly once per run, after the run's
\* last sweep, before the run's snapshot is appended and before the next run is
\* seeded, and it sees final_obj set to the run's final objective; n_iter is
\* left alone then and is assigned only after the last run.
C20Count ==
    IF callback /\ calls > 0
    THEN cb_calls = (calls - 1) * n_run + run + (IF pc = "track" THEN 1 ELSE 0)
    ELSE cb_calls = 0
C20Invoke ==
    cb_calls' # cb_calls =>
        /\ callback /\ pc = "callback" /\ ~sat
        /\ cb_calls' = cb_calls + 1
        /\ cb_obj' = cobj /\ final_obj' = cobj
        /\ seed_calls = run + 1
        /\ tracker.on => Len(tracker.list) = run
        /\ UNCHANGED <<n_iter, tracker, seed_calls, updates, iter, W, H, heap>>
C20Iter ==
    /\ n_iter' # n_iter => (pc = "for" /\ run = n_run /\ pc' = "done")
    /\ (calls' = 1 /\ pc' # "done") => n_iter' = None
C20_CallbackOncePerRun == [](C20Count) /\ [][C20Invoke /\ C20Iter]_vars
C20_Witness ==
    /\ callback
    /\ n_run = 2
    /\ pc = "track"
    /\ run = 1
    /\ calls = 1
    /\ cb_calls = 2
    /\ updates = 1
    /\ cb_obj = cobj
    /\ final_obj = cobj
    /\ tracker.on
    /\ Len(tracker.list) = 1
    /\ n_iter = None

====
